---- MODULE Spec2Model ----
(***************************************************************************)
(* Exit traversal and puppet lifecycle of BeckoningMU's typeclasses.       *)
(*                                                                         *)
(* ExitCommand.func, Exit.at_traverse, Character.at_post_move and          *)
(* Character.at_post_puppet are translated from src/typeclasses.  The      *)
(* collaborators they call (the object store's move_to, the lock handler,  *)
(* the puppet hooks at_pre_puppet / at_post_unpuppet, room deletion) are   *)
(* not defined in src/ and are modelled from their documented contract.    *)
(*                                                                         *)
(* A command handler is a plain synchronous Python method: once started it *)
(* runs to its end before another handler starts.  The traversal handler   *)
(* is modelled line by line (its frame is the variable trav) so that the   *)
(* states in the middle of a traversal are states of the model.            *)
(***************************************************************************)
EXTENDS Integers, Sequences, FiniteSets, TLC

\* ------------------------------------------------------------ bounds
NumChars == 2
NumRooms == 2

Chars == 1..NumChars
Rooms == 1..NumRooms

\* ------------------------------------------------------------ values
\* Python's None as a location ("a None-location").
Nowhere == 0
\* the configured default starting Room
DefaultRoom == 1
\* Python's None as the value of an unset Attribute (obj.db.<name>)
NoneAttr == "<None>"
\* the first Character holds the Builder permission, the others do not
Builders == {1}
\* no session (session=None)
NoSession == 0

Locations == Rooms \cup {Nowhere}
LockStrings == {"all()", "perm(Builder)"}
ErrValues == {NoneAttr, "", "The vault is sealed."}

\* Room 2 is visible to Builders only, every other Room to everyone.
ViewLock(room) == IF room = 2 THEN "perm(Builder)" ELSE "all()"

\* the session bound to a puppeted Character
SessionOf(char) == 10 + char

\* An Exit: the Room it is in, its destination, its traverse lock and its
\* err_traverse Attribute.
ExitObjs == [location : Rooms, destination : Rooms,
             lock : LockStrings, err_traverse : ErrValues]

VARIABLES location, contents, exists, puppeted, pre_logout_location,
          parkedAt, trav, out, travs, attached, call

vars == <<location, contents, exists, puppeted, pre_logout_location,
          parkedAt, trav, out, travs, attached, call>>

\* The frames of two traversal handlers whose steps interleave (travs), the
\* command groups attached to each Character (attached), and one call of a
\* display helper with its result (call).
aux == <<travs, attached, call>>

\* ------------------------------------------------------------ events
\* What a handler did that is visible outside it: messages delivered,
\* hooks called, signals sent.
Ev(kind, to, text, room, session) ==
    [ev |-> kind, to |-> to, text |-> text, room |-> room, session |-> session]

Msg(to, text) == Ev("msg", to, text, Nowhere, NoSession)
Look(to, room, session) == Ev("look", to, <<>>, room, session)

Count(log, kind) == Len(SelectSeq(log, LAMBDA e : e.ev = kind))
CountTo(log, kind, to) ==
    Len(SelectSeq(log, LAMBDA e : e.ev = kind /\ e.to = to))

\* A sequence listing the members of a finite set, in increasing order.
RECURSIVE SeqOf(_)
SeqOf(S) ==
    IF S = {} THEN << >>
    ELSE LET m == CHOOSE x \in S : \A y \in S : x <= y
         IN  << m >> \o SeqOf(S \ {m})

\* ------------------------------------------------------------ collaborators
\* obj.access(subject, access_type): the lock string decides.
Access(lock, subject) ==
    \/ lock = "all()"
    \/ lock = "perm(Builder)" /\ subject \in Builders

\* Python truthiness of an Attribute value: None and "" are false.
Truthy(value) == value \notin {NoneAttr, ""}

\* at_look(target, **kwargs): the render request, session passed through.
AtLook(char, target, session) == Look(char, target, session)

\* at_failed_traverse(traveller): the default hook "gives a default error
\* message ("You cannot go there")".
AtFailedTraverse(traveller, session) ==
    << Ev("at_failed_traverse", traveller, "", Nowhere, session),
       Msg(traveller, "You cannot go there.") >>

\* World Graph Store move: the occupant leaves its Room's set, joins the
\* destination's set and its location is updated, in one step or not at all.
\* A destination that does not resolve, or a blocking hook, rejects the move.
StoreMove(loc, cts, char, dest) ==
    [location |-> [loc EXCEPT ![char] = dest],
     contents |-> [r \in Rooms |->
                     IF r = dest THEN cts[r] \cup {char}
                     ELSE IF r = loc[char] THEN cts[r] \ {char}
                     ELSE cts[r]]]

ValidDestination(ex, dest) == dest \in Rooms /\ ex[dest]

\* ------------------------------------------------------------ Character
\* Character.at_post_move: look around after a move, if the new location
\* may be viewed; kwargs (the session) are passed to at_look.
AtPostMove(char, loc, session) ==
    IF Access(ViewLock(loc[char]), char)
    THEN << AtLook(char, loc[char], session) >>
    ELSE << >>

\* move_to(destination, move_type="traverse", exit_obj, **kwargs): the store's
\* move, then at_post_move on the moved object; returns whether it moved.
\* The departure notice goes to the other occupants of the Room left, and is
\* skipped when the occupant was nowhere; the arrival notice goes to the
\* other occupants of the Room entered.
MoveTo(loc, cts, ex, char, dest, blocked, session) ==
    IF ~ValidDestination(ex, dest) \/ blocked
    THEN [ok |-> FALSE, location |-> loc, contents |-> cts, log |-> << >>]
    ELSE LET m == StoreMove(loc, cts, char, dest)
             leaving == IF loc[char] = Nowhere THEN << >>
                        ELSE SeqOf(cts[loc[char]] \ {char})
             arriving == SeqOf(cts[dest] \ {char})
         IN  [ok |-> TRUE, location |-> m.location, contents |-> m.contents,
              log |-> ([i \in 1..Len(leaving) |->
                          Ev("departure", leaving[i], "", loc[char], NoSession)]
                       \o [i \in 1..Len(arriving) |->
                          Ev("arrival", arriving[i], "", dest, NoSession)])
                      \o AtPostMove(char, m.location, session)]

\* The key and the moniker Attribute of a Character: the second Character
\* has a moniker, the others have none.
Key(char) == "char" \o ToString(char)
Moniker(char) == IF char = 2 THEN "Nyx" ELSE NoneAttr

\* no looker (looker=None)
NoLooker == 0

\* "{}(#{})".format(name, id)
WithId(name, id) == name \o "(#" \o ToString(id) \o ")"

\* DisplayName appending the identifier for any looker that is given.
DisplayName_unchecked(char, looker, moniker) ==
    LET name == IF Truthy(moniker) THEN moniker ELSE Key(char)
    IN  IF looker # NoLooker THEN WithId(name, char) ELSE name

\* The body of Character.get_display_name for a Character whose moniker
\* Attribute holds the given value: moniker-or-key, with "(#id)" appended
\* for a looker that passes perm(Builder).
DisplayName(char, looker, moniker) ==
    LET name == IF Truthy(moniker) THEN moniker ELSE Key(char)
    IN  IF looker # NoLooker /\ Access("perm(Builder)", looker)
        THEN WithId(name, char)
        ELSE name

\* Character.get_display_name(looker)
GetDisplayName(char, looker) == DisplayName(char, looker, Moniker(char))

\* AtPostPuppet rendering the name without the recipient as looker.
AtPostPuppet_noLooker(char, loc, cts, session) ==
    LET become == Msg(char, "\nYou become |c" \o Key(char) \o "|n.\n")
        look == AtLook(char, loc[char], session)
        others == SeqOf(cts[loc[char]] \ {char})
        notice == [i \in 1..Len(others) |->
                     Ev("msg", others[i],
                        GetDisplayName(char, NoLooker) \o " has entered the game.",
                        loc[char], NoSession)]
    IN  IF loc[char] = Nowhere
        THEN [raised |-> TRUE, log |-> << become >>]
        ELSE [raised |-> FALSE, log |-> << become, look >> \o notice]

\* Character.at_post_puppet: "You become", the look render of the location,
\* and the arrival notice to the location's contents except the Character.
\* With no location there is nothing to call for_contents on: it raises.
AtPostPuppet(char, loc, cts, session) ==
    LET become == Msg(char, "\nYou become |c" \o Key(char) \o "|n.\n")
        look == AtLook(char, loc[char], session)
        others == SeqOf(cts[loc[char]] \ {char})
        notice == [i \in 1..Len(others) |->
                     Ev("msg", others[i],
                        GetDisplayName(char, others[i]) \o " has entered the game.",
                        loc[char], NoSession)]
    IN  IF loc[char] = Nowhere
        THEN [raised |-> TRUE, log |-> << become >>]
        ELSE [raised |-> FALSE, log |-> << become, look >> \o notice]

\* AtPrePuppet falling back to the default Room only when no
\* pre_logout_location is stored, not when the stored Room is gone.
AtPrePuppet_noFallback(loc, cts, ex, pre, char) ==
    IF loc[char] = Nowhere
    THEN StoreMove(loc, cts, char,
                   IF pre[char] \in Rooms THEN pre[char] ELSE DefaultRoom)
    ELSE [location |-> loc, contents |-> cts]

\* at_pre_puppet: a Character that is nowhere is moved back on the grid, to
\* its pre_logout_location if that still resolves to a Room, else to the
\* default Room.
AtPrePuppet(loc, cts, ex, pre, char) ==
    LET target == IF ValidDestination(ex, pre[char]) THEN pre[char]
                  ELSE DefaultRoom
    IN  IF loc[char] = Nowhere
        THEN StoreMove(loc, cts, char, target)
        ELSE [location |-> loc, contents |-> cts]

\* at_post_unpuppet: the current location is stored in pre_logout_location,
\* the Character is moved to a None-location, and the Room's remaining
\* occupants are told.
AtPostUnpuppet(loc, cts, pre, char) ==
    LET m == StoreMove(loc, cts, char, Nowhere)
        others == IF loc[char] = Nowhere THEN << >>
                  ELSE SeqOf(cts[loc[char]] \ {char})
    IN  [location |-> m.location, contents |-> m.contents,
         pre |-> [pre EXCEPT ![char] = loc[char]],
         log |-> [i \in 1..Len(others) |->
                    Ev("msg", others[i],
                       GetDisplayName(char, others[i]) \o " has left the game.",
                       loc[char], NoSession)]]

\* ------------------------------------------------------------ Exit
NoExit == [location |-> Nowhere, destination |-> Nowhere,
           lock |-> "all()", err_traverse |-> NoneAttr]

\* The frame of the traversal handler: where it is (pc), self.caller,
\* self.obj (exit), self.session, the arguments of at_traverse (target and
\* the session keyword), its local source_location, move_to's result, and
\* what the handler has done so far (log).
IdleTrav == [pc |-> "Idle", caller |-> 0, exit |-> NoExit, session |-> NoSession,
             target |-> Nowhere, kw |-> NoSession, source |-> Nowhere,
             moved |-> FALSE, log |-> << >>]

Terminal == {"Succeeded", "FailedLocked", "FailedMoveRejected"}
Resting == Terminal \cup {"Idle"}

\* FuncLocked with the hook called even when err_traverse is set.
FuncLocked_hookAlways(t) ==
    IF Truthy(t.exit.err_traverse)
    THEN << Msg(t.caller, t.exit.err_traverse) >> \o AtFailedTraverse(t.caller, NoSession)
    ELSE AtFailedTraverse(t.caller, NoSession)

\* ExitCommand.func, the else branch: the exit is locked.
FuncLocked(t) ==
    IF Truthy(t.exit.err_traverse)
    THEN << Msg(t.caller, t.exit.err_traverse) >>
    ELSE AtFailedTraverse(t.caller, NoSession)

\* FuncLockCheck without the lock check: at_traverse is always entered.
FuncLockCheck_noLock(t) ==
    [t EXCEPT !.pc = "at_traverse",
              !.target = t.exit.destination,
              !.kw = t.session]

\* FuncLockCheck passing the exit's own Room as the target of at_traverse.
FuncLockCheck_wrongTarget(t) ==
    IF Access(t.exit.lock, t.caller)
    THEN [t EXCEPT !.pc = "at_traverse",
                   !.target = t.exit.location,
                   !.kw = t.session]
    ELSE [t EXCEPT !.pc = "FailedLocked",
                   !.log = t.log \o FuncLocked(t)]

\* FuncLockCheck calling at_traverse without the session keyword.
FuncLockCheck_noSession(t) ==
    IF Access(t.exit.lock, t.caller)
    THEN [t EXCEPT !.pc = "at_traverse",
                   !.target = t.exit.destination,
                   !.kw = NoSession]
    ELSE [t EXCEPT !.pc = "FailedLocked",
                   !.log = t.log \o FuncLocked(t)]

\* ExitCommand.func, the lock check and what follows it: either the call of
\* at_traverse(caller, obj.destination, session=self.session) is entered, or
\* the locked branch runs and the command ends.
FuncLockCheck(t) ==
    IF Access(t.exit.lock, t.caller)
    THEN [t EXCEPT !.pc = "at_traverse",
                   !.target = t.exit.destination,
                   !.kw = t.session]
    ELSE [t EXCEPT !.pc = "FailedLocked",
                   !.log = t.log \o FuncLocked(t)]

\* AtTraverseSource taking the target for the source location.
AtTraverseSource_target(t, loc) ==
    [t EXCEPT !.pc = "move_to", !.source = t.target]

\* Exit.at_traverse: source_location = traversing_object.location
AtTraverseSource(t, loc) ==
    [t EXCEPT !.pc = "move_to", !.source = loc[t.caller]]

\* AtTraverseMove writing the traveller's location field itself instead of
\* calling move_to: the Rooms' occupant sets are not updated.
AtTraverseMove_direct(t, loc, cts, ex, blocked) ==
    IF ~ValidDestination(ex, t.target) \/ blocked
    THEN [ok |-> FALSE, location |-> loc, contents |-> cts, log |-> << >>]
    ELSE [ok |-> TRUE, location |-> [loc EXCEPT ![t.caller] = t.target],
          contents |-> cts,
          log |-> AtPostMove(t.caller, [loc EXCEPT ![t.caller] = t.target], t.kw)]

\* AtTraverseMove refusing to move a traveller that has no source location.
AtTraverseMove_needsSource(t, loc, cts, ex, blocked) ==
    MoveTo(loc, cts, ex, t.caller, t.target,
           blocked \/ loc[t.caller] = Nowhere, t.kw)

\* Exit.at_traverse: traversing_object.move_to(target_location,
\* move_type="traverse", exit_obj=self, **kwargs)
AtTraverseMove(t, loc, cts, ex, blocked) ==
    MoveTo(loc, cts, ex, t.caller, t.target, blocked, t.kw)

\* Exit.at_traverse: move_to has returned r; the call and what it did are
\* noted in the frame ("blocked" when a move hook refused the move).
AtTraverseMoved(t, r, blocked) ==
    [t EXCEPT !.pc = "moved", !.moved = r.ok,
              !.log = (t.log \o
                 << Ev("move_to", t.caller, IF blocked THEN "blocked" ELSE "",
                       t.target, t.kw) >>) \o r.log]

\* AtTraverseRejected telling the traveller nothing.
AtTraverseRejected_silent(t) == << >>

\* Exit.at_traverse, the else branch: the move was rejected.
AtTraverseRejected(t) ==
    IF Truthy(t.exit.err_traverse)
    THEN << Msg(t.caller, t.exit.err_traverse) >>
    ELSE AtFailedTraverse(t.caller, t.kw)

\* AtTraverseAfterMove passing at_post_traverse the location after the move.
AtTraverseAfterMove_newLocation(t) ==
    IF t.moved
    THEN [t EXCEPT !.pc = "signal",
                   !.log = t.log \o
                     << Ev("at_post_traverse", t.caller, "", t.target, t.kw) >>]
    ELSE [t EXCEPT !.pc = "signal",
                   !.log = t.log \o AtTraverseRejected(t)]

\* AtTraverseAfterMove ignoring move_to's result: at_post_traverse always.
AtTraverseAfterMove_ignoresResult(t) ==
    [t EXCEPT !.pc = "signal",
              !.log = t.log \o
                << Ev("at_post_traverse", t.caller, "", t.source, t.kw) >>]

\* Exit.at_traverse after move_to has returned: at_post_traverse with the
\* captured source_location, or the failure message.
AtTraverseAfterMove(t) ==
    IF t.moved
    THEN [t EXCEPT !.pc = "signal",
                   !.log = t.log \o
                     << Ev("at_post_traverse", t.caller, "", t.source, t.kw) >>]
    ELSE [t EXCEPT !.pc = "signal",
                   !.log = t.log \o AtTraverseRejected(t)]

\* AtTraverseAttrs storing the source location in pre_logout_location.
AtTraverseAttrs_parks(t, pre) == [pre EXCEPT ![t.caller] = t.source]

\* Exit.at_traverse and ExitCommand.func write no Attribute of the
\* traveller: pre_logout_location is what it was.
AtTraverseAttrs(t, pre) == pre

\* ExitCommand.func: SIGNAL_EXIT_TRAVERSED.send(sender, traverser, session),
\* the statement after the call of at_traverse; then the command has ended.
FuncSignal(t) ==
    [t EXCEPT !.pc = IF t.moved THEN "Succeeded" ELSE "FailedMoveRejected",
              !.log = t.log \o
                << Ev("signal", t.caller, "", t.exit.location, t.session) >>]

\* No display helper has been called.
NoCall == [fn |-> "none"]

\* ------------------------------------------------------------ actions
TypeOK ==
    /\ location \in [Chars -> Locations]
    /\ contents \in [Rooms -> SUBSET Chars]
    /\ exists \in [Rooms -> BOOLEAN]
    /\ puppeted \in [Chars -> BOOLEAN]
    /\ pre_logout_location \in [Chars -> Locations]
    /\ parkedAt \in [Chars -> Locations]
    /\ trav.pc \in Resting \cup {"LockChecking", "at_traverse", "move_to",
                                 "moved", "signal"}

Init ==
    /\ location = [c \in Chars |-> Nowhere]
    /\ contents = [r \in Rooms |-> {}]
    /\ exists = [r \in Rooms |-> TRUE]
    /\ puppeted = [c \in Chars |-> FALSE]
    /\ pre_logout_location = [c \in Chars |-> Nowhere]
    /\ parkedAt = [c \in Chars |-> Nowhere]
    /\ trav = IdleTrav
    /\ out = << >>
    /\ travs = << >>
    /\ attached = [c \in Chars |-> {}]
    /\ call = NoCall

World == <<location, contents, exists, puppeted, pre_logout_location, parkedAt>>

\* A puppeted Character's session enters the command of an Exit of the
\* Character's Room: the handler's frame is set up.
Invoke(caller, exit) ==
    /\ trav.pc \in Resting
    /\ puppeted[caller]
    /\ exit.location = location[caller]
    /\ trav' = [IdleTrav EXCEPT !.pc = "LockChecking", !.caller = caller,
                                !.exit = exit, !.session = SessionOf(caller)]
    /\ out' = << >>
    /\ UNCHANGED World

LockCheck ==
    /\ trav.pc = "LockChecking"
    /\ trav' = FuncLockCheck(trav)
    /\ UNCHANGED <<World, out>>

CaptureSource ==
    /\ trav.pc = "at_traverse"
    /\ trav' = AtTraverseSource(trav, location)
    /\ UNCHANGED <<World, out>>

CallMoveTo(blocked) ==
    /\ trav.pc = "move_to"
    /\ LET r == AtTraverseMove(trav, location, contents, exists, blocked)
       IN  /\ location' = r.location
           /\ contents' = r.contents
           /\ trav' = AtTraverseMoved(trav, r, blocked)
    /\ pre_logout_location' = AtTraverseAttrs(trav, pre_logout_location)
    /\ UNCHANGED <<exists, puppeted, parkedAt, out>>

AfterMove ==
    /\ trav.pc = "moved"
    /\ trav' = AtTraverseAfterMove(trav)
    /\ UNCHANGED <<World, out>>

SendSignal ==
    /\ trav.pc = "signal"
    /\ trav' = FuncSignal(trav)
    /\ UNCHANGED <<World, out>>

\* A session is bound to an unpuppeted Character: at_pre_puppet, the
\* binding, then Character.at_post_puppet.
Puppet(char) ==
    /\ trav.pc \in Resting
    /\ ~puppeted[char]
    /\ LET m == AtPrePuppet(location, contents, exists, pre_logout_location, char)
           r == AtPostPuppet(char, m.location, m.contents, NoSession)
       IN  /\ location' = m.location
           /\ contents' = m.contents
           /\ out' = << Ev("at_post_puppet", char, IF r.raised THEN "raised" ELSE "",
                           m.location[char], NoSession) >> \o r.log
    /\ puppeted' = [puppeted EXCEPT ![char] = TRUE]
    /\ trav' = IdleTrav
    /\ UNCHANGED <<exists, pre_logout_location, parkedAt>>

\* The session of a puppeted Character is unbound (disconnect or explicit
\* unpuppet): at_post_unpuppet.
Unpuppet(char) ==
    /\ trav.pc \in Resting
    /\ puppeted[char]
    /\ LET r == AtPostUnpuppet(location, contents, pre_logout_location, char)
       IN  /\ location' = r.location
           /\ contents' = r.contents
           /\ pre_logout_location' = r.pre
           /\ out' = << Ev("at_post_unpuppet", char, "", location[char], NoSession) >>
                     \o r.log
    /\ parkedAt' = [parkedAt EXCEPT ![char] = location[char]]
    /\ puppeted' = [puppeted EXCEPT ![char] = FALSE]
    /\ trav' = IdleTrav
    /\ UNCHANGED exists

\* An empty Room other than the default Room is deleted by a world-building
\* operation.
DeleteRoom(room) ==
    /\ trav.pc \in Resting
    /\ room # DefaultRoom
    /\ exists[room]
    /\ contents[room] = {}
    /\ exists' = [exists EXCEPT ![room] = FALSE]
    /\ trav' = IdleTrav
    /\ out' = << >>
    /\ UNCHANGED <<location, contents, puppeted, pre_logout_location, parkedAt>>

Next ==
    \/ \E caller \in Chars, exit \in ExitObjs :
          Invoke(caller, exit) /\ UNCHANGED aux
    \/ LockCheck /\ UNCHANGED aux
    \/ CaptureSource /\ UNCHANGED aux
    \/ \E blocked \in BOOLEAN : CallMoveTo(blocked) /\ UNCHANGED aux
    \/ AfterMove /\ UNCHANGED aux
    \/ SendSignal /\ UNCHANGED aux
    \/ \E char \in Chars : Puppet(char) /\ UNCHANGED aux
    \/ \E char \in Chars : Unpuppet(char) /\ UNCHANGED aux
    \/ \E room \in Rooms : DeleteRoom(room) /\ UNCHANGED aux

Spec == Init /\ [][Next]_vars

\* ------------------------------------------------------------ two sessions
\* Two sessions, each traversing its own Character from one Room into
\* another through an exit whose lock allows it; the steps of the two
\* handlers interleave freely.
Sessions2 == {1, 2}

InitTwo ==
    /\ \E A \in Rooms, B \in Rooms, who \in [Sessions2 -> Chars],
          ex \in [Sessions2 -> ExitObjs] :
          /\ A # B
          /\ \A s, t \in Sessions2 : s # t => who[s] # who[t]
          /\ \A s \in Sessions2 :
                /\ ex[s].location = A
                /\ ex[s].destination = B
                /\ Access(ex[s].lock, who[s])
          /\ puppeted = [c \in Chars |-> \E s \in Sessions2 : who[s] = c]
          /\ location = [c \in Chars |->
                           IF \E s \in Sessions2 : who[s] = c THEN A ELSE Nowhere]
          /\ contents = [r \in Rooms |->
                           IF r = A THEN {who[s] : s \in Sessions2} ELSE {}]
          /\ travs = [s \in Sessions2 |->
                        [IdleTrav EXCEPT !.pc = "LockChecking", !.caller = who[s],
                                         !.exit = ex[s],
                                         !.session = SessionOf(who[s])]]
    /\ exists = [r \in Rooms |-> TRUE]
    /\ pre_logout_location = [c \in Chars |-> Nowhere]
    /\ parkedAt = [c \in Chars |-> Nowhere]
    /\ trav = IdleTrav
    /\ out = << >>
    /\ attached = [c \in Chars |-> {}]
    /\ call = NoCall

Frame2 == <<exists, puppeted, pre_logout_location, parkedAt, trav, out,
            attached, call>>

LockCheck2(s) ==
    /\ travs[s].pc = "LockChecking"
    /\ travs' = [travs EXCEPT ![s] = FuncLockCheck(travs[s])]
    /\ UNCHANGED <<location, contents, Frame2>>

CaptureSource2(s) ==
    /\ travs[s].pc = "at_traverse"
    /\ travs' = [travs EXCEPT ![s] = AtTraverseSource(travs[s], location)]
    /\ UNCHANGED <<location, contents, Frame2>>

CallMoveTo2(s) ==
    /\ travs[s].pc = "move_to"
    /\ LET r == AtTraverseMove(travs[s], location, contents, exists, FALSE)
       IN  /\ location' = r.location
           /\ contents' = r.contents
           /\ travs' = [travs EXCEPT ![s] = AtTraverseMoved(travs[s], r, FALSE)]
    /\ UNCHANGED Frame2

AfterMove2(s) ==
    /\ travs[s].pc = "moved"
    /\ travs' = [travs EXCEPT ![s] = AtTraverseAfterMove(travs[s])]
    /\ UNCHANGED <<location, contents, Frame2>>

SendSignal2(s) ==
    /\ travs[s].pc = "signal"
    /\ travs' = [travs EXCEPT ![s] = FuncSignal(travs[s])]
    /\ UNCHANGED <<location, contents, Frame2>>

Step2(s) ==
    \/ LockCheck2(s)
    \/ CaptureSource2(s)
    \/ CallMoveTo2(s)
    \/ AfterMove2(s)
    \/ SendSignal2(s)

NextTwo == \E s \in Sessions2 : Step2(s)

\* Each handler, once entered, executes its statements to its end.
SpecTwo == InitTwo /\ [][NextTwo]_vars /\ \A s \in Sessions2 : WF_vars(Step2(s))

\* ------------------------------------------------------------ commands
\* The key of an Exit, by the direction it leads in.
ExitKey(exit) ==
    IF exit.destination > exit.location THEN "north"
    ELSE IF exit.destination < exit.location THEN "south"
    ELSE "around"

\* Exit.exit_command: the single command an Exit defines on itself, with the
\* same name as the Exit's key.
ExitCmd(exit) == [key |-> ExitKey(exit), obj |-> exit]

\* The outgoing Exits of a Room.
ExitsOf(room) == {e \in ExitObjs : e.location = room}

\* The command groups that can be attached to a Character, and the commands
\* VampireCommandSet.at_cmdset_creation adds.
Groups == {"VampireCommandSet"}
GroupCmds(group) ==
    IF group = "VampireCommandSet"
    THEN {"CmdSetStatus", "CmdCheckStatus", "CmdSetAge", "CmdSetTitle",
          "CmdGrantStatusPoints", "CmdAdjustStatus", "CmdStatusBoard"}
    ELSE {}

\* Command Registry activeCommands(actor): computed on demand from the
\* actor's current Room (one command per outgoing Exit) and the groups
\* attached to the actor.
ActiveCommands(actor, loc, att) ==
    [exits |-> {ExitCmd(e) : e \in ExitsOf(loc[actor])},
     groups |-> att[actor],
     names |-> UNION {GroupCmds(g) : g \in att[actor]}]

\* ------------------------------------------------------------ hooks
\* The handlers entered in any state the data model allows: every Character
\* puppeted, in a Room or nowhere.
InitHooks ==
    /\ location \in [Chars -> Locations]
    /\ exists \in [Rooms -> BOOLEAN]
    /\ exists[DefaultRoom]
    /\ \A c \in Chars : location[c] \in Rooms => exists[location[c]]
    /\ contents = [r \in Rooms |-> {c \in Chars : location[c] = r}]
    /\ puppeted = [c \in Chars |-> TRUE]
    /\ pre_logout_location = [c \in Chars |-> Nowhere]
    /\ parkedAt = [c \in Chars |-> Nowhere]
    /\ trav = IdleTrav
    /\ out = << >>
    /\ travs = << >>
    /\ attached = [c \in Chars |-> {}]
    /\ call = NoCall

\* ExitCommand.func is entered for a caller and an Exit; the caller is in
\* the Exit's Room, or is nowhere.
InvokeAny(caller, exit) ==
    /\ trav.pc \in Resting
    /\ puppeted[caller]
    /\ exists[exit.location]
    /\ location[caller] \in {exit.location, Nowhere}
    /\ trav' = [IdleTrav EXCEPT !.pc = "LockChecking", !.caller = caller,
                                !.exit = exit, !.session = SessionOf(caller)]
    /\ out' = << >>
    /\ UNCHANGED World

\* Character.at_post_puppet is called on a puppeted Character.
PostPuppet(char) ==
    /\ trav.pc \in Resting
    /\ puppeted[char]
    /\ LET r == AtPostPuppet(char, location, contents, NoSession)
       IN  out' = << Ev("at_post_puppet", char, IF r.raised THEN "raised" ELSE "",
                        location[char], NoSession) >> \o r.log
    /\ trav' = IdleTrav
    /\ UNCHANGED World

\* attach(actor, group) and detach(actor, group); both idempotent.
Attach(actor, group) ==
    /\ trav.pc \in Resting
    /\ attached' = [attached EXCEPT ![actor] = @ \cup {group}]
    /\ UNCHANGED <<World, trav, out>>

Detach(actor, group) ==
    /\ trav.pc \in Resting
    /\ attached' = [attached EXCEPT ![actor] = @ \ {group}]
    /\ UNCHANGED <<World, trav, out>>

NextHooks ==
    \/ \E caller \in Chars, exit \in ExitObjs :
          InvokeAny(caller, exit) /\ UNCHANGED aux
    \/ LockCheck /\ UNCHANGED aux
    \/ CaptureSource /\ UNCHANGED aux
    \/ \E blocked \in BOOLEAN : CallMoveTo(blocked) /\ UNCHANGED aux
    \/ AfterMove /\ UNCHANGED aux
    \/ SendSignal /\ UNCHANGED aux
    \/ \E char \in Chars : PostPuppet(char) /\ UNCHANGED aux
    \/ \E actor \in Chars, group \in Groups :
          Attach(actor, group) /\ UNCHANGED <<travs, call>>
    \/ \E actor \in Chars, group \in Groups :
          Detach(actor, group) /\ UNCHANGED <<travs, call>>

SpecHooks == InitHooks /\ [][NextHooks]_vars

\* ------------------------------------------------------------ fairness
\* A step of the traversal in progress. ExitCommand.func and Exit.at_traverse
\* are plain method calls with no loop and no suspension point: once
\* entered, each statement is followed by the next until func returns.
TraverseStep ==
    /\ \/ LockCheck
       \/ CaptureSource
       \/ \E blocked \in BOOLEAN : CallMoveTo(blocked)
       \/ AfterMove
       \/ SendSignal
    /\ UNCHANGED aux

\* Traversals alone, from any state the data model allows.
NextLive ==
    \/ \E caller \in Chars, exit \in ExitObjs :
          InvokeAny(caller, exit) /\ UNCHANGED aux
    \/ TraverseStep

SpecLive == InitHooks /\ [][NextLive]_vars /\ WF_vars(TraverseStep)

\* ------------------------------------------------------------ functions
\* Bound on the days of an idle or connection time.
MaxDays == 2

\* idle_time / connection_time of a Character with no session (None)
NoTime == -1

TimeOf(days, hours, minutes, seconds) ==
    ((days * 24 + hours) * 60 + minutes) * 60 + seconds

\* Times on both sides of every comparison format_idle_time makes.
Times ==
    {TimeOf(d, h, m, s) : d \in 0..MaxDays, h \in {0, 1, 23},
                          m \in {0, 1, 10, 11, 14, 15, 16, 19, 20, 21, 29, 30, 31, 59},
                          s \in {0, 1, 59}}
ConnTimes ==
    {NoTime, 0, TimeOf(0, 0, 0, 59), TimeOf(0, 0, 12, 0), TimeOf(1, 1, 1, 1)}

\* reading a local that no branch assigned
UnboundLocalError == "<UnboundLocalError>"

\* Character.format_idle_time(looker)
FormatIdleTime(char, looker, idle_time, connection_time) ==
    IF char = looker THEN "|g0s|n"
    ELSE LET time == IF idle_time \notin {NoTime, 0} THEN idle_time
                     ELSE connection_time
         IN  IF time = NoTime THEN "|g0s|n"
             ELSE LET seconds == time % 60
                      minutes == (time \div 60) % 60
                      hours == ((time \div 60) \div 60) % 24
                      days == ((time \div 60) \div 60) \div 24
                  IN  IF days > 0 THEN "|x" \o ToString(days) \o "d|n"
                      ELSE IF hours > 0 THEN "|x" \o ToString(hours) \o "h|n"
                      ELSE IF minutes > 0 THEN
                          IF minutes > 10 /\ minutes < 15
                          THEN "|G" \o ToString(minutes) \o "m|n"
                          ELSE IF minutes > 15 /\ minutes < 20
                          THEN "|y" \o ToString(minutes) \o "m|n"
                          ELSE IF minutes > 20 /\ minutes < 30
                          THEN "|r" \o ToString(minutes) \o "m|n"
                          ELSE IF minutes > 30
                          THEN "|r" \o ToString(minutes) \o "m|n"
                          ELSE "|g" \o ToString(minutes) \o "m|n"
                      ELSE IF seconds > 0 THEN "|g" \o ToString(seconds) \o "s|n"
                      ELSE UnboundLocalError

\* A call of one of the two functions: its receiver and arguments, the
\* Attributes and properties of the receiver it reads, and its result.
Pending == "<pending>"

DisplayCalls ==
    [fn : {"get_display_name"}, char : Chars, looker : {NoLooker} \cup Chars,
     moniker : {NoneAttr, "", "Nyx"}, idle_time : {NoTime},
     connection_time : {NoTime}, result : {Pending}]

IdleCalls ==
    [fn : {"format_idle_time"}, char : Chars, looker : {NoLooker} \cup Chars,
     moniker : {NoneAttr}, idle_time : {NoTime} \cup Times,
     connection_time : ConnTimes, result : {Pending}]

InitFn ==
    /\ location = [c \in Chars |-> Nowhere]
    /\ contents = [r \in Rooms |-> {}]
    /\ exists = [r \in Rooms |-> TRUE]
    /\ puppeted = [c \in Chars |-> FALSE]
    /\ pre_logout_location = [c \in Chars |-> Nowhere]
    /\ parkedAt = [c \in Chars |-> Nowhere]
    /\ trav = IdleTrav
    /\ out = << >>
    /\ travs = << >>
    /\ attached = [c \in Chars |-> {}]
    /\ call \in DisplayCalls \cup IdleCalls

ApplyGetDisplayName ==
    /\ call.fn = "get_display_name"
    /\ call.result = Pending
    /\ call' = [call EXCEPT
                  !.result = DisplayName(call.char, call.looker, call.moniker)]
    /\ UNCHANGED <<World, trav, out, travs, attached>>

ApplyFormatIdleTime ==
    /\ call.fn = "format_idle_time"
    /\ call.result = Pending
    /\ call' = [call EXCEPT
                  !.result = FormatIdleTime(call.char, call.looker,
                                            call.idle_time, call.connection_time)]
    /\ UNCHANGED <<World, trav, out, travs, attached>>

NextFn == ApplyGetDisplayName \/ ApplyFormatIdleTime

SpecFn == InitFn /\ [][NextFn]_vars

\* ------------------------------------------------------------ properties
Caller == trav.caller
Denied == ~Access(trav.exit.lock, trav.caller)
Events(kind) == SelectSeq(trav.log, LAMBDA e : e.ev = kind)

\* C1: when the traverse lock denies the traveller, the lock check step ends
\* the traversal in FailedLocked; the traveller's location and the occupant
\* sets of the exit's Room and of its destination are what they were, no
\* move_to was attempted, and exactly one message was delivered, to the
\* traveller.
C1_LockedTraversal ==
    [][(trav.pc = "LockChecking" /\ Denied) =>
          /\ trav'.pc = "FailedLocked"
          /\ location'[Caller] = location[Caller]
          /\ contents'[trav.exit.location] = contents[trav.exit.location]
          /\ contents'[trav.exit.destination] = contents[trav.exit.destination]
          /\ Count(trav'.log, "move_to") = 0
          /\ Count(trav'.log, "msg") = 1
          /\ CountTo(trav'.log, "msg", Caller) = 1]_vars

C1_Witness ==
    /\ trav.pc = "FailedLocked"
    /\ Denied
    /\ trav.exit.destination # trav.exit.location
    /\ Count(trav.log, "msg") = 1
    /\ Caller \in contents[trav.exit.location]

\* C2: from the lock check to the end of a traversal through an exit from
\* Room A to a different Room B the traveller is in exactly one of A's and
\* B's occupant sets, and at Succeeded it is in B's and not in A's.
C2_MovedExactlyOnce ==
    (trav.pc # "Idle" /\ trav.exit.destination # trav.exit.location) =>
        /\ (Caller \in contents[trav.exit.location])
              # (Caller \in contents[trav.exit.destination])
        /\ trav.pc = "Succeeded" =>
              /\ Caller \in contents[trav.exit.destination]
              /\ Caller \notin contents[trav.exit.location]
              /\ location[Caller] = trav.exit.destination

C2_Witness ==
    /\ trav.pc = "Succeeded"
    /\ trav.exit.destination # trav.exit.location
    /\ trav.source = trav.exit.location
    /\ Caller \in contents[trav.exit.destination]
    /\ Caller \notin contents[trav.source]

\* C3: every occupant's location is one Room or nowhere, and an occupant is
\* in a Room's occupant set exactly when its location is that Room.
C3_LocationMatchesContents ==
    \A c \in Chars :
        /\ location[c] \in Rooms \cup {Nowhere}
        /\ \A r \in Rooms : (c \in contents[r]) <=> (location[c] = r)

C3_Witness ==
    /\ trav.pc = "Succeeded"
    /\ trav.source # trav.target
    /\ \E c \in Chars : location[c] = Nowhere /\ parkedAt[c] \in Rooms
    /\ location[Caller] = trav.target

\* C4: at FailedLocked, an exit with a non-empty err_traverse has delivered
\* exactly that text and has not called at_failed_traverse; any other exit
\* has called at_failed_traverse once and sent no err_traverse text; the
\* traveller is still in the exit's Room.
C4_LockedMessagePrecedence ==
    trav.pc = "FailedLocked" =>
        /\ location[Caller] = trav.exit.location
        /\ IF trav.exit.err_traverse \notin {NoneAttr, ""}
           THEN /\ trav.log = << Msg(Caller, trav.exit.err_traverse) >>
                /\ Count(trav.log, "at_failed_traverse") = 0
           ELSE /\ Count(trav.log, "at_failed_traverse") = 1
                /\ \A i \in 1..Len(trav.log) :
                      trav.log[i].ev = "msg" =>
                          trav.log[i].text # trav.exit.err_traverse

C4_Witness ==
    /\ trav.pc = "FailedLocked"
    /\ trav.exit.err_traverse = "The vault is sealed."
    /\ trav.exit.lock = "perm(Builder)"
    /\ trav.log = << Msg(Caller, "The vault is sealed.") >>

\* C5: when the lock allows and move_to reports failure, no step of the
\* traversal from move_to on changes a location or an occupant set, and at
\* FailedMoveRejected at_post_traverse has not been called and exactly one
\* message was delivered, to the traveller: err_traverse if it is non-empty
\* (and then no hook), else the one at_failed_traverse sends.
Rejected(t) == t.pc \in {"moved", "signal", "FailedMoveRejected"} /\ ~t.moved

C5_RejectedTraversal ==
    [][Rejected(trav') =>
          /\ location' = location
          /\ contents' = contents
          /\ Count(trav'.log, "at_post_traverse") = 0
          /\ trav'.pc = "FailedMoveRejected" =>
                /\ Count(trav'.log, "msg") = 1
                /\ CountTo(trav'.log, "msg", trav'.caller) = 1
                /\ IF trav'.exit.err_traverse \notin {NoneAttr, ""}
                   THEN /\ Count(trav'.log, "at_failed_traverse") = 0
                        /\ \E i \in 1..Len(trav'.log) :
                              trav'.log[i] = Msg(trav'.caller, trav'.exit.err_traverse)
                   ELSE Count(trav'.log, "at_failed_traverse") = 1]_vars

C5_Witness ==
    /\ trav.pc = "FailedMoveRejected"
    /\ Access(trav.exit.lock, Caller)
    /\ ~ValidDestination(exists, trav.target)
    /\ Count(trav.log, "msg") = 1
    /\ location[Caller] = trav.source

\* C6: the traverse signal is sent exactly once in a traversal that reaches
\* Succeeded and is not sent in one that ends in FailedLocked or in
\* FailedMoveRejected.
C6_SignalOnlyOnSuccess ==
    /\ trav.pc = "Succeeded" =>
          Events("signal") = << Ev("signal", Caller, "", trav.exit.location, trav.session) >>
    /\ trav.pc \in {"FailedLocked", "FailedMoveRejected"} =>
          Count(trav.log, "signal") = 0

\* Position of the first event of a kind in a log, 0 if there is none.
FirstIndex(log, kind) ==
    IF \E i \in 1..Len(log) : log[i].ev = kind
    THEN CHOOSE i \in 1..Len(log) :
            log[i].ev = kind /\ \A j \in 1..(i - 1) : log[j].ev # kind
    ELSE 0

PuppetStep(c) == ~puppeted[c] /\ puppeted'[c]

C9_Parked ==
    \A c \in Chars :
        puppeted[c] \/ (location[c] = Nowhere /\ pre_logout_location[c] = parkedAt[c])

C9_PreLogoutLocation ==
    /\ C9_Parked
    /\ [][/\ C9_Parked'
          /\ \A c \in Chars :
                pre_logout_location'[c] # pre_logout_location[c] =>
                    /\ puppeted[c] /\ ~puppeted'[c]
                    /\ pre_logout_location'[c] = location[c]
                    /\ trav.pc \in Resting]_vars

C9_Witness ==
    /\ trav.pc = "Succeeded"
    /\ trav.source # trav.target
    /\ pre_logout_location[Caller] \in Rooms
    /\ pre_logout_location[Caller] # trav.source
    /\ \E c \in Chars : ~puppeted[c] /\ pre_logout_location[c] \in Rooms

\* C10: after at_post_puppet of a Character in a Room, every other occupant
\* of the Room has been sent exactly one message, "<name> has entered the
\* game." with the name as that occupant sees it ("(#id)" appended for a
\* Builder), the Character has been sent no such notice, and the Character
\* has been sent one look render of the Room.
ShownName(c) == IF Moniker(c) \notin {NoneAttr, ""} THEN Moniker(c) ELSE Key(c)
Arrival(c, o) ==
    (IF o \in Builders THEN ShownName(c) \o "(#" \o ToString(c) \o ")"
     ELSE ShownName(c)) \o " has entered the game."
Sent(log, kind, to) == SelectSeq(log, LAMBDA e : e.ev = kind /\ e.to = to)

BothArrived ==
    \A s \in Sessions2 :
        /\ travs[s].pc = "Succeeded"
        /\ travs[s].caller \in contents[travs[s].exit.destination]
        /\ travs[s].caller \notin contents[travs[s].exit.location]
        /\ location[travs[s].caller] = travs[s].exit.destination

C11_TwoConcurrentTraversals ==
    /\ [](\A c \in Chars, r \in Rooms : (c \in contents[r]) <=> (location[c] = r))
    /\ [](\A s \in Sessions2 : travs[s].pc \in Terminal => travs[s].pc = "Succeeded")
    /\ <>[]BothArrived

C11_Witness ==
    /\ BothArrived
    /\ Cardinality({travs[s].caller : s \in Sessions2}) = 2
    /\ \A s \in Sessions2 :
          /\ travs[s].source = travs[s].exit.location
          /\ Count(travs[s].log, "signal") = 1

Surface == ActiveCommands(Caller, location, attached)

C13_SurfaceAfterMove ==
    /\ [](((trav.pc \in {"moved", "signal", "Succeeded"}) /\ trav.moved) =>
            /\ \A e \in ExitObjs :
                  (e.location = trav.exit.destination) <=>
                  ([key |-> ExitKey(e), obj |-> e] \in Surface.exits)
            /\ Cardinality(Surface.exits) =
                  Cardinality({e \in ExitObjs : e.location = trav.exit.destination})
            /\ trav.exit.destination # trav.exit.location =>
                  \A cmd \in Surface.exits : cmd.obj.location # trav.exit.location
            /\ Surface.groups = attached[Caller])
    /\ [][trav'.pc \notin Resting \cup {"LockChecking"} => attached' = attached]_vars

C13_Witness ==
    /\ trav.pc = "Succeeded"
    /\ trav.source \in Rooms
    /\ trav.source # trav.target
    /\ attached[Caller] = {"VampireCommandSet"}
    /\ "CmdSetAge" \in Surface.names
    /\ [key |-> "south", obj |-> [location |-> trav.target, destination |-> trav.source,
                                  lock |-> "all()", err_traverse |-> ""]] \in Surface.exits

\* C14: get_display_name returns "<moniker-or-key>(#<id>)" exactly when a
\* looker is given and passes perm(Builder); otherwise it returns the
\* moniker when one is set, else the key, with nothing appended; and the
\* call changes no state.
Returned(fn) == call.fn = fn /\ call.result # Pending

MonikerOrKey ==
    IF call.moniker \notin {NoneAttr, ""} THEN call.moniker
    ELSE "char" \o ToString(call.char)

IdleTimeRead ==
    IF call.idle_time \notin {NoTime, 0} THEN call.idle_time
    ELSE call.connection_time

\* The largest non-zero unit of a time, as its count and its letter.
LargestUnit(time) ==
    IF time \div 86400 > 0 THEN [n |-> time \div 86400, unit |-> "d"]
    ELSE IF time \div 3600 > 0 THEN [n |-> time \div 3600, unit |-> "h"]
    ELSE IF time \div 60 > 0 THEN [n |-> time \div 60, unit |-> "m"]
    ELSE [n |-> time, unit |-> "s"]

Shows(result, time) ==
    \E colour \in {"|x", "|g", "|G", "|y", "|r"} :
        result = colour \o ToString(LargestUnit(time).n)
                        \o LargestUnit(time).unit \o "|n"

C19_IdleTimeAlwaysFormatted ==
    Returned("format_idle_time") =>
        /\ call.result # UnboundLocalError
        /\ IF call.char = call.looker \/ IdleTimeRead = NoTime
           THEN call.result = "|g0s|n"
           ELSE Shows(call.result, IdleTimeRead)

\* C16: at_post_traverse is invoked once, after move_to has reported
\* success, with the location the traveller had before the move (the
\* exit's Room, not the Room it is in now); it is not invoked before
\* move_to has returned, nor when the move was rejected.
C16_PostTraverseOnce ==
    /\ [](trav.pc \in {"LockChecking", "at_traverse", "move_to", "moved",
                       "FailedLocked"}
            => Len(Events("at_post_traverse")) = 0)
    /\ []((trav.pc \in {"signal", "FailedMoveRejected"} /\ ~trav.moved)
            => Len(Events("at_post_traverse")) = 0)
    /\ []((trav.pc \in {"signal", "Succeeded"} /\ trav.moved) =>
            /\ Len(Events("at_post_traverse")) = 1
            /\ Events("at_post_traverse")[1].room = trav.exit.location
            /\ Events("at_post_traverse")[1].to = Caller
            /\ FirstIndex(trav.log, "move_to") > 0
            /\ FirstIndex(trav.log, "move_to")
                  < FirstIndex(trav.log, "at_post_traverse"))
    /\ [][(trav.pc = "move_to" /\ trav'.moved /\ trav'.pc = "moved")
            => trav.source = location[Caller]]_vars

C16_Witness ==
    /\ trav.pc = "signal"
    /\ trav.moved
    /\ trav.exit.location # trav.exit.destination
    /\ location[Caller] = trav.exit.destination
    /\ Len(Events("at_post_traverse")) = 1
    /\ Events("at_post_traverse")[1].room # location[Caller]

\* C17: a traveller that is nowhere traverses like any other: when the
\* lock allows it the lock check lets it through; when the destination is
\* a Room and no move hook refuses, move_to succeeds and the traversal ends
\* in Succeeded with the traveller in the destination's occupant set, the
\* look render delivered when the view lock allows, at_post_traverse and
\* the traverse signal each once, and no departure notice to anyone.
FromNowhere == trav.source = Nowhere /\ trav.pc \in {"moved", "signal"} \cup Terminal

Refused ==
    \E i \in 1..Len(trav.log) :
        trav.log[i].ev = "move_to" /\ trav.log[i].text = "blocked"

PostPuppetRan == Len(out) > 0 /\ out[1].ev = "at_post_puppet"

C18_PostPuppetCompletes ==
    PostPuppetRan =>
        /\ out[1].text # "raised"
        /\ Len(out) > 1
        /\ out[2] = Msg(out[1].to, "\nYou become |c" \o "char"
                                     \o ToString(out[1].to) \o "|n.\n")

====
